---- MODULE Spec2Model ----
(***************************************************************************)
(* Model of backend/app.py: the Flask handlers of the user data            *)
(* requisition service and the two PostgreSQL tables they work on.         *)
(*                                                                         *)
(* Python values are modelled as tuples: None is <<>>, a string s is <<s>> *)
(* and a timestamp n is <<n>>, so that a nullable column has one type.     *)
(* Primary keys (uuid4 strings) are never None and are modelled as the     *)
(* positive integers in order of generation; 0 is an id no row ever has.   *)
(* Each request is served by a thread; a handler is cut into steps where   *)
(* it reads or writes the shared store or the clock.                       *)
(***************************************************************************)
EXTENDS Integers, Sequences, FiniteSets, TLC

\* ---------------------------------------------------------------- bounds
MaxClock == 1
MaxReqs == 1
MaxRequests == 3
MaxUsers == 3

Threads == {"t1", "t2"}

VARIABLES users, requisitions, clock, nextId, nreq, pc, request, local, conn, response

vars == <<users, requisitions, clock, nextId, nreq, pc, request, local, conn, response>>

\* ------------------------------------------------------- python values
None == <<>>
Str(s) == <<s>>
\* Python truthiness of a JSON value: None and the empty string are falsy.
Truthy(v) == v # None /\ v # Str("")
\* dict.get(key, default)
Get(data, key, default) == IF key \in DOMAIN data THEN data[key] ELSE default
\* a or b
Or(a, b) == IF Truthy(a) THEN a ELSE b

\* nreq counts the requests taken up so far (no more than MaxRequests are);
\* request, local and response of a thread keep the body, the handler's
\* locals and the answer of its last call until it takes up the next one.
NoLocal == [op |-> "none"]
NoRequest == [op |-> "none"]
NoResponse == [code |-> 0]

\* ------------------------------------------------- create_requisition
mandatory_fields == <<"basin", "user_cpf_no", "user_mobile_no", "user_group">>

\* field.replace('_', ' ').capitalize() on the four mandatory field names
FieldLabel(field) ==
    CASE field = "basin" -> "Basin"
      [] field = "user_cpf_no" -> "User cpf no"
      [] field = "user_mobile_no" -> "User mobile no"
      [] field = "user_group" -> "User group"

\* A variant that takes the status from the request body when it has one.
StatusFromBody(data) == Get(data, "status", Str("pending_level2"))
\* Line 255: the status of a new requisition; the body is not consulted.
StatusOnCreate(data) == Str("pending_level2")

\* A variant that stamps the record one clock unit ahead of the clock read.
CreatedAtAhead(now) == <<now + 1>>
\* Line 256: created_at is the clock read while the dict is built.
CreatedAt(now) == <<now>>

\* The requisition_data dict built from the request body at time now.
RequisitionData(data, now) ==
    [ requisition_date |-> Get(data, "requisitionDate", None),
      basin |-> Get(data, "basin", None),
      block |-> Get(data, "block", None),
      area |-> Get(data, "area", None),
      dimension |-> Get(data, "dimension", None),
      return_date |-> Get(data, "returnDate", None),
      data_type |-> Get(data, "dataType", None),
      objective |-> Get(data, "objective", None),
      remarks |-> Get(data, "remarks", None),
      user_name |-> Get(data, "userName", None),
      user_designation |-> Get(data, "userDesignation", None),
      user_cpf_no |-> Get(data, "userCPFNo", None),
      user_mobile_no |-> Get(data, "userMobileNo", None),
      user_group |-> Get(data, "userGroup", None),
      requested_by_user_id |-> Get(data, "requestedByUserId", None),
      requested_by_user_cpf_id |-> Get(data, "requestedByUserCpfId", None),
      status |-> StatusOnCreate(data),
      created_at |-> CreatedAt(now),
      title |-> Get(data, "title",
                    <<"Requisition for", Get(data, "basin", None),
                      Or(Get(data, "area", None), Str("N/A"))>>),
      description |-> Get(data, "description", Get(data, "objective", None)) ]

\* A variant that tests the mandatory fields for None only.
MissingFieldNoneOnly(requisition_data) ==
    LET missing == {i \in 1..Len(mandatory_fields) :
                        requisition_data[mandatory_fields[i]] = None}
    IN IF missing = {} THEN 0
       ELSE CHOOSE i \in missing : \A j \in missing : i <= j
\* Index of the first mandatory field that is falsy, 0 when there is none.
MissingField(requisition_data) ==
    LET missing == {i \in 1..Len(mandatory_fields) :
                        ~Truthy(requisition_data[mandatory_fields[i]])}
    IN IF missing = {} THEN 0
       ELSE CHOOSE i \in missing : \A j \in missing : i <= j

\* The row the INSERT statement writes: the 21 listed columns, the four
\* decision columns left to their NULL default.
InsertedRow(req_id, requisition_data) ==
    [ id |-> req_id,
      title |-> requisition_data.title,
      description |-> requisition_data.description,
      requisition_date |-> requisition_data.requisition_date,
      basin |-> requisition_data.basin,
      block |-> requisition_data.block,
      area |-> requisition_data.area,
      dimension |-> requisition_data.dimension,
      return_date |-> requisition_data.return_date,
      data_type |-> requisition_data.data_type,
      objective |-> requisition_data.objective,
      remarks |-> requisition_data.remarks,
      user_name |-> requisition_data.user_name,
      user_designation |-> requisition_data.user_designation,
      user_cpf_no |-> requisition_data.user_cpf_no,
      user_mobile_no |-> requisition_data.user_mobile_no,
      user_group |-> requisition_data.user_group,
      requested_by_user_id |-> requisition_data.requested_by_user_id,
      requested_by_user_cpf_id |-> requisition_data.requested_by_user_cpf_id,
      status |-> requisition_data.status,
      created_at |-> requisition_data.created_at,
      approved_by_level2_user_id |-> None,
      approved_by_level2_user_cpf_id |-> None,
      approved_by_level2_user_name |-> None,
      decision_at |-> None ]

\* Request bodies of POST /api/requisitions: a complete body, bodies with a
\* mandatory key absent, with one empty, with one empty and one absent, and a
\* complete body that also carries status and decision values.
BaseBody ==
    [ basin |-> Str("KG"), area |-> Str("A1"), objective |-> Str("study"),
      userCPFNo |-> Str("c1"), userMobileNo |-> Str("m1"),
      userGroup |-> Str("g1"), requestedByUserId |-> Str("u1") ]

Without(data, keys) == [k \in DOMAIN data \ keys |-> data[k]]
Emptied(data, keys) == [k \in DOMAIN data |-> IF k \in keys THEN Str("") ELSE data[k]]

MandatoryKeys == {"basin", "userCPFNo", "userMobileNo", "userGroup"}

CarriedDecision ==
    [ status |-> Str("approved"),
      approvedByLevel2UserId |-> Str("ua"),
      approvedByLevel2UserCpfId |-> Str("ca"),
      approvedByLevel2UserName |-> Str("na"),
      decisionAt |-> <<0>> ]

SubmitBodies ==
    LET plain == {BaseBody}
                 \cup {Without(BaseBody, {k}) : k \in {"basin", "userMobileNo"}}
                 \cup {Emptied(BaseBody, {k}) : k \in {"userCPFNo", "userGroup"}}
                 \cup {Emptied(Without(BaseBody, {"userGroup"}), {"userCPFNo"})}
    IN plain \cup {BaseBody @@ CarriedDecision}

\* Lines 236-271: build requisition_data (reading the clock), validate the
\* mandatory fields, generate the id and open the connection.
create_requisition_begin(t, data, connected) ==
    /\ pc[t] = "idle"
    /\ nreq < MaxRequests
    /\ nreq' = nreq + 1
    /\ request' = [request EXCEPT ![t] = [op |-> "create_requisition", data |-> data]]
    /\ LET requisition_data == RequisitionData(data, clock)
           missing == MissingField(requisition_data)
       IN IF missing # 0
          THEN /\ response' = [response EXCEPT ![t] =
                     [code |-> 400, field |-> FieldLabel(mandatory_fields[missing])]]
               /\ local' = [local EXCEPT ![t] = NoLocal]
               /\ UNCHANGED <<pc, conn, nextId>>
          ELSE /\ nextId <= MaxReqs
               /\ nextId' = nextId + 1
               /\ IF connected
                  THEN /\ pc' = [pc EXCEPT ![t] = "create_insert"]
                       /\ conn' = [conn EXCEPT ![t] = TRUE]
                       /\ local' = [local EXCEPT ![t] =
                             [op |-> "create_requisition", req_id |-> nextId,
                              requisition_data |-> requisition_data]]
                       /\ response' = [response EXCEPT ![t] = NoResponse]
                  ELSE /\ response' = [response EXCEPT ![t] = [code |-> 500, error |-> "OperationalError"]]
                       /\ local' = [local EXCEPT ![t] = NoLocal]
                       /\ UNCHANGED <<pc, conn>>
    /\ UNCHANGED <<users, requisitions, clock>>

\* Lines 273-296 and the finally clause: INSERT, commit, close, 201.
create_requisition_insert(t) ==
    /\ pc[t] = "create_insert"
    /\ requisitions' = requisitions \cup
            {InsertedRow(local[t].req_id, local[t].requisition_data)}
    /\ response' = [response EXCEPT ![t] = [code |-> 201, id |-> local[t].req_id]]
    /\ conn' = [conn EXCEPT ![t] = FALSE]
    /\ pc' = [pc EXCEPT ![t] = "idle"]
    /\ UNCHANGED <<users, clock, nextId, nreq, request, local>>

\* ------------------------------------------- update_requisition_status
\* A variant that keeps a decider column when the call supplies none for it.
UpdatedRowCoalesce(r, new_status, user_id, user_cpf_id, user_name, decision_timestamp) ==
    [r EXCEPT !.status = new_status,
              !.approved_by_level2_user_id = IF user_id = None THEN @ ELSE user_id,
              !.approved_by_level2_user_cpf_id = IF user_cpf_id = None THEN @ ELSE user_cpf_id,
              !.approved_by_level2_user_name = IF user_name = None THEN @ ELSE user_name,
              !.decision_at = <<decision_timestamp>>]
\* The UPDATE statement on one row.
UpdatedRow(r, new_status, user_id, user_cpf_id, user_name, decision_timestamp) ==
    [r EXCEPT !.status = new_status,
              !.approved_by_level2_user_id = user_id,
              !.approved_by_level2_user_cpf_id = user_cpf_id,
              !.approved_by_level2_user_name = user_name,
              !.decision_at = <<decision_timestamp>>]

\* A variant that stores a decision only when the body names its decider.
UpdateRequisitionsByDecider(rows, requisition_id, new_status, user_id, user_cpf_id, user_name, decision_timestamp) ==
    {IF r.id = requisition_id /\ user_id # None
     THEN UpdatedRow(r, new_status, user_id, user_cpf_id, user_name, decision_timestamp)
     ELSE r : r \in rows}
\* A variant without the WHERE clause: every row takes the decision.
UpdateRequisitionsAll(rows, requisition_id, new_status, user_id, user_cpf_id, user_name, decision_timestamp) ==
    {UpdatedRow(r, new_status, user_id, user_cpf_id, user_name, decision_timestamp) : r \in rows}
\* A variant whose WHERE clause also asks for an older decision_at.
UpdateRequisitionsIfNewer(rows, requisition_id, new_status, user_id, user_cpf_id, user_name, decision_timestamp) ==
    {IF r.id = requisition_id
        /\ (r.decision_at = None \/ r.decision_at[1] <= decision_timestamp)
     THEN UpdatedRow(r, new_status, user_id, user_cpf_id, user_name, decision_timestamp)
     ELSE r : r \in rows}
\* UPDATE requisitions SET ... WHERE id = requisition_id, on the table.
UpdateRequisitions(rows, requisition_id, new_status, user_id, user_cpf_id, user_name, decision_timestamp) ==
    {IF r.id = requisition_id
     THEN UpdatedRow(r, new_status, user_id, user_cpf_id, user_name, decision_timestamp)
     ELSE r : r \in rows}

\* A variant that counts the rows of the table, whatever their id.
RowCountAnyId(rows, requisition_id) == Cardinality(rows)
\* cursor.rowcount of that statement
RowCount(rows, requisition_id) == Cardinality({r \in rows : r.id = requisition_id})

Decider(u) ==
    [ approvedByLevel2UserId |-> Str("u" \o u),
      approvedByLevel2UserCpfId |-> Str("c" \o u),
      approvedByLevel2UserName |-> Str("n" \o u) ]

\* Request bodies of PUT /api/requisitions/<id>: status absent, empty or one
\* of three strings; decider identity absent or complete.
DecideBodies ==
    LET statuses == {[status |-> Str("approved")], [status |-> Str("denied")],
                     [status |-> Str("pending_level2")]}
        deciders == {<<>>, Decider("a")}
    IN {s @@ d : s \in statuses, d \in deciders}
       \cup {Decider("a"), [status |-> Str("")]}

\* Ids a client can put in the URL: the id of a stored row (returned by an
\* earlier create or list) or a string that is no row's id. A uuid4 that has
\* not been handed out yet cannot be named by a client.
KnownIds == {r.id : r \in requisitions} \cup {0}

\* A variant that refuses an absent status only: an empty one passes.
StatusAbsent(new_status) == new_status = None
\* Line 363, if not new_status: an absent, null or empty status.
StatusMissing(new_status) == ~Truthy(new_status)

\* Lines 357-371: read the body, validate status, open the connection and
\* read the clock.
update_requisition_status_begin(t, requisition_id, data, connected) ==
    /\ pc[t] = "idle"
    /\ nreq < MaxRequests
    /\ nreq' = nreq + 1
    /\ request' = [request EXCEPT ![t] =
          [op |-> "update_requisition_status", requisition_id |-> requisition_id,
           data |-> data]]
    /\ LET new_status == Get(data, "status", None)
       IN IF StatusMissing(new_status)
          THEN /\ response' = [response EXCEPT ![t] = [code |-> 400, field |-> "status"]]
               /\ local' = [local EXCEPT ![t] = NoLocal]
               /\ UNCHANGED <<pc, conn>>
          ELSE IF connected
          THEN /\ pc' = [pc EXCEPT ![t] = "update_execute"]
               /\ conn' = [conn EXCEPT ![t] = TRUE]
               /\ local' = [local EXCEPT ![t] =
                     [op |-> "update_requisition_status",
                      new_status |-> new_status,
                      approved_by_level2_user_id |-> Get(data, "approvedByLevel2UserId", None),
                      approved_by_level2_user_cpf_id |-> Get(data, "approvedByLevel2UserCpfId", None),
                      approved_by_level2_user_name |-> Get(data, "approvedByLevel2UserName", None),
                      decision_timestamp |-> clock]]
               /\ response' = [response EXCEPT ![t] = NoResponse]
          ELSE /\ response' = [response EXCEPT ![t] = [code |-> 500, error |-> "OperationalError"]]
               /\ local' = [local EXCEPT ![t] = NoLocal]
               /\ UNCHANGED <<pc, conn>>
    /\ UNCHANGED <<users, requisitions, clock, nextId>>

\* Lines 373-389 and the finally clause: UPDATE, commit, rowcount, close.
update_requisition_status_execute(t) ==
    /\ pc[t] = "update_execute"
    /\ LET l == local[t]
           requisition_id == request[t].requisition_id
       IN /\ requisitions' = UpdateRequisitions(requisitions, requisition_id,
                 l.new_status, l.approved_by_level2_user_id,
                 l.approved_by_level2_user_cpf_id, l.approved_by_level2_user_name,
                 l.decision_timestamp)
          /\ response' = [response EXCEPT ![t] =
                IF RowCount(requisitions, requisition_id) = 0
                THEN [code |-> 404]
                ELSE [code |-> 200, id |-> requisition_id, status |-> l.new_status]]
    /\ conn' = [conn EXCEPT ![t] = FALSE]
    /\ pc' = [pc EXCEPT ![t] = "idle"]
    /\ UNCHANGED <<users, clock, nextId, nreq, request, local>>

\* ---------------------------------------------------- get_requisitions
\* The characters of the strings that occur as basin, user group or filter.
Chars(s) ==
    CASE s = "KG" -> <<"K", "G">>
      [] s = "kg" -> <<"k", "g">>
      [] s = "K_" -> <<"K", "_">>
      [] s = "g1" -> <<"g", "1">>
      [] s = "G" -> <<"G">>
      [] s = "x" -> <<"x">>
      [] OTHER -> <<s>>

LowerChar(c) ==
    CASE c = "K" -> "k"
      [] c = "G" -> "g"
      [] OTHER -> c

Lower(cs) == [i \in 1..Len(cs) |-> LowerChar(cs[i])]

\* PostgreSQL's s ILIKE p on character sequences: % stands for any run of
\* characters, _ for any one character, a backslash takes the next pattern
\* character literally, every other character stands for itself in either
\* case.
RECURSIVE LikeMatch(_, _)
LikeMatch(s, p) ==
    IF p = <<>> THEN s = <<>>
    ELSE IF p[1] = "%"
    THEN \E k \in 0..Len(s) : LikeMatch(SubSeq(s, k + 1, Len(s)), Tail(p))
    ELSE IF p[1] = "\\" /\ Len(p) >= 2
    THEN /\ s # <<>>
         /\ LowerChar(s[1]) = LowerChar(p[2])
         /\ LikeMatch(Tail(s), Tail(Tail(p)))
    ELSE /\ s # <<>>
         /\ (p[1] = "_" \/ LowerChar(s[1]) = LowerChar(p[1]))
         /\ LikeMatch(Tail(s), Tail(p))

\* Lines 326-331: column ILIKE %s with the parameter f"%{filter}%", the
\* filter text put between the two wildcards as it came; NULL ILIKE
\* anything is not true.
ILike(column, filter) ==
    /\ column # None
    /\ LikeMatch(Chars(column[1]), <<"%">> \o Chars(filter[1]) \o <<"%">>)

\* The WHERE clause built from the query arguments.
Where(r, args) ==
    /\ Truthy(args.status) => r.status = args.status
    /\ Truthy(args.userId) => r.requested_by_user_id = args.userId
    /\ Truthy(args.basin) => ILike(r.basin, args.basin)
    /\ Truthy(args.userGroup) => ILike(r.user_group, args.userGroup)

\* datetime.isoformat(); a NULL column is left as it is.
IsoFormat(ts) == IF ts = None THEN None ELSE <<"iso", ts[1]>>

\* dict(req) with created_at and decision_at converted.
ReqDict(r) == [r EXCEPT !.created_at = IsoFormat(r.created_at),
                        !.decision_at = IsoFormat(r.decision_at)]

\* A variant that sorts the oldest row first.
OrderByCreatedAtAsc(rows) ==
    LET n == Cardinality(rows)
    IN {s \in [1..n -> rows] :
            /\ \A i, j \in 1..n : i # j => s[i] # s[j]
            /\ \A i, j \in 1..n : i < j => s[i].created_at[1] <= s[j].created_at[1]}
\* ORDER BY created_at DESC: every arrangement of the rows in which no row
\* precedes one created later (the store is free in the order of ties).
OrderByCreatedAtDesc(rows) ==
    LET n == Cardinality(rows)
    IN {s \in [1..n -> rows] :
            /\ \A i, j \in 1..n : i # j => s[i] # s[j]
            /\ \A i, j \in 1..n : i < j => s[i].created_at[1] >= s[j].created_at[1]}

\* The result lists the SELECT can produce.
SelectRequisitions(rows, args) ==
    {[i \in 1..Len(s) |-> ReqDict(s[i])] :
        s \in OrderByCreatedAtDesc({r \in rows : Where(r, args)})}

NoArgs == [status |-> None, userId |-> None, basin |-> None, userGroup |-> None]

\* Query strings of GET /api/requisitions: no filter, each filter alone
\* (matching in the other case, matching nothing, carrying a LIKE wildcard)
\* and filters combined.
ListArgs ==
    {NoArgs,
     [NoArgs EXCEPT !.status = Str("approved")],
     [NoArgs EXCEPT !.userId = Str("u1")],
     [NoArgs EXCEPT !.basin = Str("kg")],
     [NoArgs EXCEPT !.basin = Str("x")],
     [NoArgs EXCEPT !.basin = Str("K_")],
     [NoArgs EXCEPT !.userGroup = Str("G")],
     [NoArgs EXCEPT !.status = Str("approved"), !.basin = Str("kg")],
     [NoArgs EXCEPT !.status = Str("pending_level2"), !.basin = Str("kg"),
                    !.userId = Str("u1"), !.userGroup = Str("G")]}

\* Lines 307-353: one SELECT on a connection opened and closed by the call.
get_requisitions(t, args, connected) ==
    /\ pc[t] = "idle"
    /\ nreq < MaxRequests
    /\ nreq' = nreq + 1
    /\ request' = [request EXCEPT ![t] = [op |-> "get_requisitions", args |-> args]]
    /\ local' = [local EXCEPT ![t] = NoLocal]
    /\ IF connected
       THEN \E result_list \in SelectRequisitions(requisitions, args) :
               response' = [response EXCEPT ![t] = [code |-> 200, body |-> result_list]]
       ELSE response' = [response EXCEPT ![t] = [code |-> 500, error |-> "OperationalError"]]
    /\ UNCHANGED <<users, requisitions, clock, nextId, pc, conn>>

\* --------------------------------------------- download_requisition_pdf
\* Lines 419-424, add_field: the label and the text put under it, which is
\* value.isoformat() for a datetime and str(value) for everything else;
\* str(None) is the text None.
add_field(label, value, is_datetime) ==
    [label |-> label,
     value |-> IF value = None THEN Str("None")
               ELSE IF is_datetime THEN IsoFormat(value)
               ELSE value]

\* Lines 427-446: the labels printed from one column each.
PdfColumns ==
    << <<"Date of Requisition", "requisition_date">>, <<"Basin", "basin">>,
       <<"Block", "block">>, <<"Area", "area">>, <<"2D/3D", "dimension">>,
       <<"Return Date (Data to GMS)", "return_date">>,
       <<"Type of Data Required", "data_type">>, <<"Objective", "objective">>,
       <<"Remarks", "remarks">>, <<"Name", "user_name">>,
       <<"Designation", "user_designation">>, <<"CPF No.", "user_cpf_no">>,
       <<"Mobile No.", "user_mobile_no">>, <<"Group", "user_group">> >>

\* Line 453: status.replace('_', ' ').title()
StatusDisplay(status) ==
    CASE status = Str("pending_level2") -> Str("Pending Level2")
      [] status = Str("approved") -> Str("Approved")
      [] status = Str("denied") -> Str("Denied")
      [] OTHER -> status

\* Lines 417-456: the fields of the document, in print order. req_dict is
\* dict(row) and has every column as a key, a NULL column with the value
\* None, so the default of req_dict.get is not used.
PdfFields(req_dict) ==
    << [label |-> "Requisition ID", value |-> Get(req_dict, "id", Str("N/A"))] >>
    \o [i \in 1..Len(PdfColumns) |->
           add_field(PdfColumns[i][1], Get(req_dict, PdfColumns[i][2], Str("N/A")), FALSE)]
    \o << add_field("Status", StatusDisplay(Get(req_dict, "status", Str("N/A"))), FALSE),
          add_field("Approved/Denied By",
                    Or(Or(Get(req_dict, "approved_by_level2_user_name", None),
                          Get(req_dict, "approved_by_level2_user_cpf_id", None)),
                       Str("N/A")),
                    FALSE),
          add_field("Decision Date", Get(req_dict, "decision_at", Str("N/A")), TRUE) >>

\* Lines 400-473: one SELECT on a connection opened and closed by the call.
download_requisition_pdf(t, requisition_id, connected) ==
    /\ pc[t] = "idle"
    /\ nreq < MaxRequests
    /\ nreq' = nreq + 1
    /\ request' = [request EXCEPT ![t] =
          [op |-> "download_requisition_pdf", requisition_id |-> requisition_id]]
    /\ local' = [local EXCEPT ![t] = NoLocal]
    /\ response' = [response EXCEPT ![t] =
          IF ~connected THEN [code |-> 500, error |-> "OperationalError"]
          ELSE IF \A r \in requisitions : r.id # requisition_id THEN [code |-> 404]
          ELSE [code |-> 200,
                fields |-> PdfFields(CHOOSE r \in requisitions : r.id = requisition_id)]]
    /\ UNCHANGED <<users, requisitions, clock, nextId, pc, conn>>

\* ------------------------------------------------------------- users
\* werkzeug generate_password_hash: a salted digest of the password.
generate_password_hash(password, salt) == <<"pbkdf2", salt, <<"H", salt, password>>>>

Salts == {"s1", "s2"}

StrLen(s) ==
    CASE s = "short" -> 5
      [] s = "secret" -> 6
      [] s = "password123" -> 11
      [] OTHER -> Len(Chars(s))

UserRow(id, cpf_id, name, password_hash, role, created_by) ==
    [ id |-> id, cpf_id |-> cpf_id, name |-> name,
      password_hash |-> password_hash, role |-> role, created_by |-> created_by ]

\* SELECT id FROM users WHERE cpf_id = %s
SelectByCpfId(rows, cpf_id) == {u \in rows : u.cpf_id = cpf_id}

\* A table without the constraint on cpf_id: no INSERT is ever refused.
NoUniqueConstraint(rows, cpf_id) == FALSE
\* Line 37, cpf_id VARCHAR(255) UNIQUE NOT NULL: an INSERT of a row whose
\* cpf_id a committed row already carries raises a unique violation.
UniqueViolation(rows, cpf_id) == SelectByCpfId(rows, cpf_id) # {}

\* A variant that replaces the row holding the cpf_id (INSERT ... ON CONFLICT
\* (cpf_id) DO UPDATE).
UpsertUser(rows, row) == {u \in rows : u.cpf_id # row.cpf_id} \cup {row}
\* Lines 83-88: INSERT INTO users and commit; a refused INSERT is rolled
\* back and the table is as it was.
InsertUser(rows, row) == IF UniqueViolation(rows, row.cpf_id) THEN rows ELSE rows \cup {row}

\* Lines 89 and 91: what an init_db run prints; it answers nobody.
PrintedCreated == [code |-> 0, printed |-> "Default admin user created"]
PrintedError == [code |-> 0, printed |-> "Database initialization error"]

\* ------------------------------------------------------------ init_db
\* Lines 30-79: connect, create the tables if they do not exist, look for
\* the default admin user.
init_db_begin(t, connected) ==
    /\ pc[t] = "boot"
    /\ request' = [request EXCEPT ![t] = [op |-> "init_db"]]
    /\ response' = [response EXCEPT ![t] = IF connected THEN NoResponse ELSE PrintedError]
    /\ IF connected /\ SelectByCpfId(users, Str("admin123")) = {}
       THEN /\ nextId <= MaxUsers
            /\ nextId' = nextId + 1
            /\ pc' = [pc EXCEPT ![t] = "init_db_insert"]
            /\ conn' = [conn EXCEPT ![t] = TRUE]
            /\ local' = [local EXCEPT ![t] = [op |-> "init_db", admin_id |-> nextId]]
       ELSE /\ pc' = [pc EXCEPT ![t] = "idle"]
            /\ local' = [local EXCEPT ![t] = NoLocal]
            /\ UNCHANGED <<conn, nextId>>
    /\ UNCHANGED <<users, requisitions, clock, nreq>>

\* Lines 80-96: insert the default admin; a unique violation on cpf_id is a
\* psycopg2.Error, which is printed and rolled back.
init_db_insert(t, salt) ==
    /\ pc[t] = "init_db_insert"
    /\ users' = InsertUser(users, UserRow(local[t].admin_id, Str("admin123"),
                                          Str("Admin User"),
                                          generate_password_hash("password123", salt),
                                          Str("admin"), Str("system")))
    /\ response' = [response EXCEPT ![t] =
          IF UniqueViolation(users, Str("admin123")) THEN PrintedError ELSE PrintedCreated]
    /\ conn' = [conn EXCEPT ![t] = FALSE]
    /\ pc' = [pc EXCEPT ![t] = "idle"]
    /\ UNCHANGED <<requisitions, clock, nextId, nreq, request, local>>

\* The process serving on t is restarted and runs init_db again.
restart(t) ==
    /\ pc[t] = "idle"
    /\ nreq < MaxRequests
    /\ nreq' = nreq + 1
    /\ pc' = [pc EXCEPT ![t] = "boot"]
    /\ UNCHANGED <<users, requisitions, clock, nextId, request, local, conn, response>>

\* ------------------------------------------------------ register_user
\* Request bodies of POST /api/register.
RegisterBase ==
    [ name |-> Str("n1"), cpfId |-> Str("c1"), password |-> Str("secret"),
      role |-> Str("requester"), createdBy |-> Str("admin123") ]

RegisterBodies ==
    {RegisterBase,
     Without([RegisterBase EXCEPT !.name = Str("n2"), !.role = Str("approver"),
                                  !.password = Str("password123")], {"createdBy"}),
     [RegisterBase EXCEPT !.cpfId = Str("admin123")],
     [RegisterBase EXCEPT !.password = Str("short"), !.cpfId = Str("admin123")],
     Without(RegisterBase, {"name"}),
     [RegisterBase EXCEPT !.role = Str("")],
     [RegisterBase EXCEPT !.role = Str("superuser")]}

\* Lines 139-162: read and validate the body, connect, look the cpf_id up.
register_user_begin(t, data, connected) ==
    /\ pc[t] = "idle"
    /\ nreq < MaxRequests
    /\ nreq' = nreq + 1
    /\ request' = [request EXCEPT ![t] = [op |-> "register_user", data |-> data]]
    /\ LET name == Get(data, "name", None)
           cpf_id == Get(data, "cpfId", None)
           password == Get(data, "password", None)
           role == Get(data, "role", None)
           created_by == Get(data, "createdBy", Str("unknown"))
       IN IF ~(Truthy(name) /\ Truthy(cpf_id) /\ Truthy(password) /\ Truthy(role))
          THEN /\ response' = [response EXCEPT ![t] = [code |-> 400, field |-> "required"]]
               /\ local' = [local EXCEPT ![t] = NoLocal]
               /\ UNCHANGED <<pc, conn, nextId>>
          ELSE IF StrLen(password[1]) < 6
          THEN /\ response' = [response EXCEPT ![t] = [code |-> 400, field |-> "password"]]
               /\ local' = [local EXCEPT ![t] = NoLocal]
               /\ UNCHANGED <<pc, conn, nextId>>
          ELSE IF ~connected
          THEN /\ response' = [response EXCEPT ![t] = [code |-> 500, error |-> "OperationalError"]]
               /\ local' = [local EXCEPT ![t] = NoLocal]
               /\ UNCHANGED <<pc, conn, nextId>>
          ELSE IF SelectByCpfId(users, cpf_id) # {}
          THEN /\ response' = [response EXCEPT ![t] = [code |-> 409]]
               /\ local' = [local EXCEPT ![t] = NoLocal]
               /\ UNCHANGED <<pc, conn, nextId>>
          ELSE /\ nextId <= MaxUsers
               /\ nextId' = nextId + 1
               /\ pc' = [pc EXCEPT ![t] = "register_insert"]
               /\ conn' = [conn EXCEPT ![t] = TRUE]
               /\ local' = [local EXCEPT ![t] =
                     [op |-> "register_user", user_id |-> nextId, cpf_id |-> cpf_id,
                      name |-> name, password |-> password, role |-> role,
                      created_by |-> created_by]]
               /\ response' = [response EXCEPT ![t] = NoResponse]
    /\ UNCHANGED <<users, requisitions, clock>>

\* Lines 162-177: hash the password, INSERT and commit. The UNIQUE
\* constraint on cpf_id makes the INSERT raise psycopg2.Error when a row with
\* that cpf_id was committed since the SELECT; the except clause answers 500.
register_user_insert(t, salt) ==
    /\ pc[t] = "register_insert"
    /\ LET l == local[t]
       IN IF UniqueViolation(users, l.cpf_id)
          THEN /\ response' = [response EXCEPT ![t] =
                     [code |-> 500, error |-> "UniqueViolation"]]
               /\ UNCHANGED users
          ELSE /\ users' = users \cup
                     {UserRow(l.user_id, l.cpf_id, l.name,
                              generate_password_hash(l.password[1], salt),
                              l.role, l.created_by)}
               /\ response' = [response EXCEPT ![t] = [code |-> 201, id |-> l.user_id]]
    /\ conn' = [conn EXCEPT ![t] = FALSE]
    /\ pc' = [pc EXCEPT ![t] = "idle"]
    /\ UNCHANGED <<requisitions, clock, nextId, nreq, request, local>>

\* ----------------------------------------------------- change_password
\* werkzeug check_password_hash: hash the password with the salt of the
\* stored hash and compare.
check_password_hash(pwhash, password) ==
    pwhash = generate_password_hash(password, pwhash[2])

\* Request bodies of PUT /api/users/<user_id>/password.
PasswordBodies ==
    {[currentPassword |-> Str("password123"), newPassword |-> Str("secret")],
     [currentPassword |-> Str("secret"), newPassword |-> Str("password123")],
     [currentPassword |-> Str("password123"), newPassword |-> Str("short")],
     [currentPassword |-> Str("password123"), newPassword |-> Str("password123")],
     [newPassword |-> Str("secret")]}

\* The user_id of the path: the id of a stored user, or one no user has.
KnownUserIds == {u.id : u \in users} \cup {99}

\* Lines 196-222: read and validate the body, connect, SELECT the user and
\* check both passwords against the password_hash that SELECT returned.
change_password_begin(t, user_id, data, connected) ==
    /\ pc[t] = "idle"
    /\ nreq < MaxRequests
    /\ nreq' = nreq + 1
    /\ request' = [request EXCEPT ![t] =
          [op |-> "change_password", user_id |-> user_id, data |-> data]]
    /\ LET current_password == Get(data, "currentPassword", None)
           new_password == Get(data, "newPassword", None)
           user == {u \in users : u.id = user_id}
       IN IF ~Truthy(current_password) \/ ~Truthy(new_password)
          THEN /\ response' = [response EXCEPT ![t] = [code |-> 400, field |-> "required"]]
               /\ local' = [local EXCEPT ![t] = NoLocal]
               /\ UNCHANGED <<pc, conn>>
          ELSE IF StrLen(new_password[1]) < 6
          THEN /\ response' = [response EXCEPT ![t] = [code |-> 400, field |-> "length"]]
               /\ local' = [local EXCEPT ![t] = NoLocal]
               /\ UNCHANGED <<pc, conn>>
          ELSE IF ~connected
          THEN /\ response' = [response EXCEPT ![t] = [code |-> 500, error |-> "OperationalError"]]
               /\ local' = [local EXCEPT ![t] = NoLocal]
               /\ UNCHANGED <<pc, conn>>
          ELSE IF user = {}
          THEN /\ response' = [response EXCEPT ![t] = [code |-> 404]]
               /\ local' = [local EXCEPT ![t] = NoLocal]
               /\ UNCHANGED <<pc, conn>>
          ELSE IF \E u \in user : ~check_password_hash(u.password_hash, current_password[1])
          THEN /\ response' = [response EXCEPT ![t] = [code |-> 401]]
               /\ local' = [local EXCEPT ![t] = NoLocal]
               /\ UNCHANGED <<pc, conn>>
          ELSE IF \E u \in user : check_password_hash(u.password_hash, new_password[1])
          THEN /\ response' = [response EXCEPT ![t] = [code |-> 400, field |-> "same"]]
               /\ local' = [local EXCEPT ![t] = NoLocal]
               /\ UNCHANGED <<pc, conn>>
          ELSE /\ pc' = [pc EXCEPT ![t] = "password_update"]
               /\ conn' = [conn EXCEPT ![t] = TRUE]
               /\ local' = [local EXCEPT ![t] =
                     [op |-> "change_password", new_password |-> new_password]]
               /\ response' = [response EXCEPT ![t] = NoResponse]
    /\ UNCHANGED <<users, requisitions, clock, nextId>>

\* Lines 222-232: hash the new password, UPDATE the row of that id, commit.
change_password_update(t, salt) ==
    /\ pc[t] = "password_update"
    /\ users' = {IF u.id = request[t].user_id
                 THEN [u EXCEPT !.password_hash =
                          generate_password_hash(local[t].new_password[1], salt)]
                 ELSE u : u \in users}
    /\ response' = [response EXCEPT ![t] = [code |-> 200]]
    /\ conn' = [conn EXCEPT ![t] = FALSE]
    /\ pc' = [pc EXCEPT ![t] = "idle"]
    /\ UNCHANGED <<requisitions, clock, nextId, nreq, request, local>>

\* ------------------------------------------------------ store failure
\* A variant without the finally clause: the connection stays open.
db_error_unclosed(t) ==
    /\ pc[t] \in {"create_insert", "update_execute", "register_insert", "init_db_insert",
                 "password_update"}
    /\ response' = [response EXCEPT ![t] =
          IF pc[t] = "init_db_insert" THEN PrintedError
          ELSE [code |-> 500, error |-> "Error"]]
    /\ pc' = [pc EXCEPT ![t] = "idle"]
    /\ UNCHANGED <<users, requisitions, clock, nextId, nreq, request, local, conn>>
\* A statement or the commit raises psycopg2.Error: the except clause rolls
\* back and answers 500, the finally clause closes the connection.
db_error(t) ==
    /\ pc[t] \in {"create_insert", "update_execute", "register_insert", "init_db_insert",
                 "password_update"}
    /\ response' = [response EXCEPT ![t] =
          IF pc[t] = "init_db_insert" THEN PrintedError
          ELSE [code |-> 500, error |-> "Error"]]
    /\ conn' = [conn EXCEPT ![t] = FALSE]
    /\ pc' = [pc EXCEPT ![t] = "idle"]
    /\ UNCHANGED <<users, requisitions, clock, nextId, nreq, request, local>>

\* ------------------------------------------------------------- clock
Tick ==
    /\ clock < MaxClock
    /\ clock' = clock + 1
    /\ UNCHANGED <<users, requisitions, nextId, nreq, pc, request, local, conn, response>>

\* The default admin row init_db leaves in a fresh database.
DefaultAdmin ==
    UserRow(0, Str("admin123"), Str("Admin User"),
            generate_password_hash("password123", "s1"), Str("admin"), Str("system"))

\* The requisition handlers, served by processes that have run init_db.
Init ==
    /\ users = {DefaultAdmin}
    /\ requisitions = {}
    /\ clock = 0
    /\ nextId = 1
    /\ nreq = 0
    /\ pc = [t \in Threads |-> "idle"]
    /\ request = [t \in Threads |-> NoRequest]
    /\ local = [t \in Threads |-> NoLocal]
    /\ conn = [t \in Threads |-> FALSE]
    /\ response = [t \in Threads |-> NoResponse]

\* The requisition lifecycle on a store that accepts connections; a
\* statement or commit may still fail (db_error).
Next ==
    \/ Tick
    \/ \E t \in Threads, data \in SubmitBodies :
          create_requisition_begin(t, data, TRUE)
    \/ \E t \in Threads : create_requisition_insert(t)
    \/ \E t \in Threads, requisition_id \in KnownIds, data \in DecideBodies :
          update_requisition_status_begin(t, requisition_id, data, TRUE)
    \/ \E t \in Threads : update_requisition_status_execute(t)
    \/ \E t \in Threads : db_error(t)

Spec == Init /\ [][Next]_vars

\* The same handlers when psycopg2.connect may fail as well.
NextFaulty ==
    \/ Next
    \/ \E t \in Threads, data \in SubmitBodies :
          create_requisition_begin(t, data, FALSE)
    \/ \E t \in Threads, requisition_id \in KnownIds, data \in DecideBodies :
          update_requisition_status_begin(t, requisition_id, data, FALSE)

SpecFaulty == Init /\ [][NextFaulty]_vars

\* get_requisitions reads a table that earlier requests have filled: a
\* requisition submitted by u1 for basin KG and since approved, and a later
\* one submitted by u2 for basin x and still pending. Both were created
\* before the clock of this run started.
StoredRequisitions ==
    {UpdatedRow(InsertedRow(101, RequisitionData(BaseBody, 0 - 2)),
                Str("approved"), Str("u1"), Str("c1"), Str("n1"), 0 - 1),
     InsertedRow(102, RequisitionData([BaseBody EXCEPT !.basin = Str("x"),
                                                       !.requestedByUserId = Str("u2")],
                                      0 - 1))}

InitList ==
    /\ users = {DefaultAdmin}
    /\ requisitions = StoredRequisitions
    /\ clock = 0
    /\ nextId = 1
    /\ nreq = 0
    /\ pc = [t \in Threads |-> "idle"]
    /\ request = [t \in Threads |-> NoRequest]
    /\ local = [t \in Threads |-> NoLocal]
    /\ conn = [t \in Threads |-> FALSE]
    /\ response = [t \in Threads |-> NoResponse]

\* The bodies sent while the table is being listed.
ListSubmitBodies == {BaseBody, Without(BaseBody, {"basin"})}
ListDecideBodies == {[status |-> Str("approved")] @@ Decider("1"), [status |-> Str("denied")]}

\* The list handler next to Submit and Decide calls that change the table
\* it reads.
NextList ==
    \/ Tick
    \/ \E t \in Threads, data \in ListSubmitBodies :
          create_requisition_begin(t, data, TRUE)
    \/ \E t \in Threads : create_requisition_insert(t)
    \/ \E t \in Threads, requisition_id \in KnownIds, data \in ListDecideBodies :
          update_requisition_status_begin(t, requisition_id, data, TRUE)
    \/ \E t \in Threads : update_requisition_status_execute(t)
    \/ \E t \in Threads, args \in ListArgs :
          get_requisitions(t, args, TRUE)

SpecList == InitList /\ [][NextList]_vars

\* The document handler next to Submit and Decide calls that change the
\* table it reads.
NextPdf ==
    \/ Tick
    \/ \E t \in Threads, data \in ListSubmitBodies :
          create_requisition_begin(t, data, TRUE)
    \/ \E t \in Threads : create_requisition_insert(t)
    \/ \E t \in Threads, requisition_id \in KnownIds, data \in ListDecideBodies :
          update_requisition_status_begin(t, requisition_id, data, TRUE)
    \/ \E t \in Threads : update_requisition_status_execute(t)
    \/ \E t \in Threads, requisition_id \in KnownIds :
          download_requisition_pdf(t, requisition_id, TRUE)

SpecPdf == InitList /\ [][NextPdf]_vars

\* A registered user of role requester, the one the stored requisition 101
\* was submitted by.
RequesterUsers ==
    {UserRow(51, Str("c1"), Str("n1"), generate_password_hash("secret", "s1"),
             Str("requester"), Str("admin123"))}

InitAuth ==
    /\ users = {DefaultAdmin} \cup RequesterUsers
    /\ requisitions = StoredRequisitions
    /\ clock = 0
    /\ nextId = 1
    /\ nreq = 0
    /\ pc = [t \in Threads |-> "idle"]
    /\ request = [t \in Threads |-> NoRequest]
    /\ local = [t \in Threads |-> NoLocal]
    /\ conn = [t \in Threads |-> FALSE]
    /\ response = [t \in Threads |-> NoResponse]

\* Decide bodies naming as decider the user of role requester who submitted
\* requisition 101 (and not 102), somebody the users table does not hold,
\* and nobody.
AuthDecideBodies ==
    {[status |-> Str("approved")] @@ d : d \in {Decider("1"), Decider("a"), <<>>}}

\* Decide calls by every kind of decider on the stored requisitions.
NextAuth ==
    \/ Tick
    \/ \E t \in Threads, requisition_id \in KnownIds, data \in AuthDecideBodies :
          update_requisition_status_begin(t, requisition_id, data, TRUE)
    \/ \E t \in Threads : update_requisition_status_execute(t)

SpecAuth == InitAuth /\ [][NextAuth]_vars

\* The bodies registered while passwords are being changed.
PasswordRegisterBodies == {RegisterBase, [RegisterBase EXCEPT !.cpfId = Str("admin123")]}

\* The password handler on a store that holds the default admin, next to
\* the other writers of the users table: register_user and the init_db of a
\* restarting process, which finds the admin and inserts nothing.
NextPassword ==
    \/ \E t \in Threads, user_id \in KnownUserIds, data \in PasswordBodies :
          change_password_begin(t, user_id, data, TRUE)
    \/ \E t \in Threads, salt \in Salts : change_password_update(t, salt)
    \/ \E t \in Threads, data \in PasswordRegisterBodies :
          register_user_begin(t, data, TRUE)
    \/ \E t \in Threads, salt \in Salts : register_user_insert(t, salt)
    \/ \E t \in Threads : restart(t)
    \/ \E t \in Threads : init_db_begin(t, TRUE)
    \/ \E t \in Threads : db_error(t)

SpecPassword == Init /\ [][NextPassword]_vars

\* The identity store: processes booting on an empty database (each runs
\* init_db before it serves) and the register handler.
InitUsers ==
    /\ users = {}
    /\ requisitions = {}
    /\ clock = 0
    /\ nextId = 1
    /\ nreq = 0
    /\ pc = [t \in Threads |-> "boot"]
    /\ request = [t \in Threads |-> NoRequest]
    /\ local = [t \in Threads |-> NoLocal]
    /\ conn = [t \in Threads |-> FALSE]
    /\ response = [t \in Threads |-> NoResponse]

NextUsers ==
    \/ \E t \in Threads, connected \in BOOLEAN : init_db_begin(t, connected)
    \/ \E t \in Threads, salt \in Salts : init_db_insert(t, salt)
    \/ \E t \in Threads : restart(t)
    \/ \E t \in Threads, data \in RegisterBodies, connected \in BOOLEAN :
          register_user_begin(t, data, connected)
    \/ \E t \in Threads, salt \in Salts : register_user_insert(t, salt)
    \/ \E t \in Threads : db_error(t)

SpecUsers == InitUsers /\ [][NextUsers]_vars

\* The bodies sent while connections are being counted.
ConnPasswordBodies ==
    {[currentPassword |-> Str("password123"), newPassword |-> Str("secret")],
     [currentPassword |-> Str("secret"), newPassword |-> Str("password123")]}

\* Every handler that opens a connection, on a store where psycopg2.connect
\* and every statement may fail, served by processes that boot on an empty
\* database.
NextConn ==
    \/ \E t \in Threads, connected \in BOOLEAN : init_db_begin(t, connected)
    \/ \E t \in Threads, salt \in {"s1"} : init_db_insert(t, salt)
    \/ \E t \in Threads, connected \in BOOLEAN :
          create_requisition_begin(t, BaseBody, connected)
    \/ \E t \in Threads : create_requisition_insert(t)
    \/ \E t \in Threads, requisition_id \in KnownIds, connected \in BOOLEAN :
          update_requisition_status_begin(t, requisition_id, [status |-> Str("approved")],
                                          connected)
    \/ \E t \in Threads : update_requisition_status_execute(t)
    \/ \E t \in Threads, connected \in BOOLEAN : get_requisitions(t, NoArgs, connected)
    \/ \E t \in Threads, requisition_id \in KnownIds, connected \in BOOLEAN :
          download_requisition_pdf(t, requisition_id, connected)
    \/ \E t \in Threads, connected \in BOOLEAN :
          register_user_begin(t, RegisterBase, connected)
    \/ \E t \in Threads, salt \in {"s1"} : register_user_insert(t, salt)
    \/ \E t \in Threads, user_id \in KnownUserIds, data \in ConnPasswordBodies,
          connected \in BOOLEAN :
          change_password_begin(t, user_id, data, connected)
    \/ \E t \in Threads, salt \in {"s1"} : change_password_update(t, salt)
    \/ \E t \in Threads : db_error(t)

SpecConn == InitUsers /\ [][NextConn]_vars

\* ===================================================== claims C1 .. C10
Pending == Str("pending_level2")

\* The four decision columns of a row (or of a returned dict).
DecisionFields(r) ==
    <<r.approved_by_level2_user_id, r.approved_by_level2_user_cpf_id,
      r.approved_by_level2_user_name, r.decision_at>>

AllNull(r) == \A i \in 1..4 : DecisionFields(r)[i] = None
AllPopulated(r) == \A i \in 1..4 : DecisionFields(r)[i] # None

\* The step takes up a request and leaves every thread but t as it was: the
\* request is the one request[t] holds after the step.
TakesRequest(t) ==
    /\ nreq' = nreq + 1
    /\ pc[t] = "idle"
    /\ \A u \in Threads \ {t} :
          /\ pc'[u] = pc[u] /\ request'[u] = request[u] /\ local'[u] = local[u]
          /\ conn'[u] = conn[u] /\ response'[u] = response[u]

\* Thread t takes the last step of an update_requisition_status call whose
\* UPDATE was executed (the store did not raise).
DecideReturns(t) ==
    /\ pc[t] = "update_execute"
    /\ pc'[t] = "idle"
    /\ response'[t].code # 500

\* What the call served by t asked to be written.
DecisionOf(t) ==
    <<local[t].new_status, local[t].approved_by_level2_user_id,
      local[t].approved_by_level2_user_cpf_id, local[t].approved_by_level2_user_name,
      <<local[t].decision_timestamp>>>>

DecisionIn(r) ==
    <<r.status, r.approved_by_level2_user_id, r.approved_by_level2_user_cpf_id,
      r.approved_by_level2_user_name, r.decision_at>>

\* C1: in every reachable state each requisition has its four decision fields
\* all null with status pending_level2, or all non-null with another status.
C1_DecisionFieldsAllOrNone ==
    \A r \in requisitions :
        \/ AllNull(r) /\ r.status = Pending
        \/ AllPopulated(r) /\ r.status # Pending

\* C2: once the status of a requisition has left pending_level2, no step
\* changes its status or its decision fields again.
C2_DecidedOnce ==
    [][\A r \in requisitions :
          r.status # Pending =>
             \E r2 \in requisitions' : r2.id = r.id /\ DecisionIn(r2) = DecisionIn(r)]_vars

\* C3: a Submit whose four mandatory fields are present and non-empty is not
\* rejected as invalid, and the record it persists has status pending_level2
\* and four null decision fields, whatever the body carried.
MandatoryPresent(data) == \A k \in MandatoryKeys : Truthy(Get(data, k, None))

C3_SubmitPersistsPending ==
    [][\A t \in Threads :
          /\ (TakesRequest(t) /\ request'[t].op = "create_requisition"
                /\ MandatoryPresent(request'[t].data))
              => response'[t].code # 400
          /\ (pc[t] = "create_insert" /\ response'[t].code = 201)
              => /\ MandatoryPresent(request[t].data)
                 /\ \A r \in requisitions : r.id # local[t].req_id
                 /\ \E r \in requisitions' :
                       /\ r.id = local[t].req_id
                       /\ r.status = Pending
                       /\ AllNull(r)
                       /\ requisitions' = requisitions \cup {r}]_vars

C3_Witness ==
    \E t \in Threads :
        /\ request[t].op = "create_requisition"
        /\ Get(request[t].data, "status", None) = Str("approved")
        /\ Get(request[t].data, "approvedByLevel2UserId", None) # None
        /\ response[t].code = 201
        /\ \E r \in requisitions :
              r.id = response[t].id /\ r.status = Pending /\ AllNull(r)

\* C4: a Submit in which a mandatory field is absent or empty answers 400
\* naming a field that is missing, inserts nothing and opens no connection.
MissingLabels(data) ==
    {l \in {"Basin", "User cpf no", "User mobile no", "User group"} :
        \/ l = "Basin" /\ ~Truthy(Get(data, "basin", None))
        \/ l = "User cpf no" /\ ~Truthy(Get(data, "userCPFNo", None))
        \/ l = "User mobile no" /\ ~Truthy(Get(data, "userMobileNo", None))
        \/ l = "User group" /\ ~Truthy(Get(data, "userGroup", None))}

C4_InvalidSubmitRejected ==
    [][\A t \in Threads :
          (TakesRequest(t) /\ request'[t].op = "create_requisition"
             /\ ~MandatoryPresent(request'[t].data))
          => /\ response'[t].code = 400
             /\ response'[t].field \in MissingLabels(request'[t].data)
             /\ requisitions' = requisitions
             /\ conn' = conn
             /\ pc'[t] = "idle"]_vars

C4_Witness ==
    /\ requisitions # {}
    /\ \E t \in Threads :
          /\ request[t].op = "create_requisition"
          /\ Cardinality(MissingLabels(request[t].data)) = 2
          /\ response[t].code = 400
          /\ response[t].field = "User cpf no"

\* C5: a Decide with a non-empty status whose requisitionId matches no stored
\* record answers 404 (not the validation answer 400) and changes no record.
C5_DecideUnknownIdNotFound ==
    [][\A t \in Threads :
          (DecideReturns(t)
             /\ \A r \in requisitions : r.id # request[t].requisition_id)
          => /\ Truthy(Get(request[t].data, "status", None))
             /\ response'[t].code = 404
             /\ requisitions' = requisitions]_vars

C5_Witness ==
    /\ \E r \in requisitions : r.status = Pending
    /\ \E t \in Threads :
          /\ request[t].op = "update_requisition_status"
          /\ \A r \in requisitions : r.id # request[t].requisition_id
          /\ response[t].code = 404

\* C6: after a successful Decide(r, s, decider), a List filtered on status s
\* returns r, and the returned r has its four decision fields populated.
C6_DecideThenListPopulated ==
    [][\A t \in Threads :
          (DecideReturns(t) /\ response'[t].code = 200)
          => \A result_list \in
                 SelectRequisitions(requisitions',
                                    [NoArgs EXCEPT !.status = local[t].new_status]) :
                \E i \in 1..Len(result_list) :
                    /\ result_list[i].id = request[t].requisition_id
                    /\ AllPopulated(result_list[i])]_vars

\* C7: in every reachable state a requisition whose decisionAt is set has
\* createdAt <= decisionAt.
C7_CreatedBeforeDecided ==
    \A r \in requisitions :
        r.decision_at # None => r.created_at[1] <= r.decision_at[1]

C7_Witness ==
    \E r \in requisitions :
        r.decision_at # None /\ r.created_at[1] < r.decision_at[1]

\* C8: a Decide on a record that already carries a decision succeeds, and the
\* record then holds exactly that call's status, decider user id, decider
\* external id, decider name and decision time.
C8_SecondDecideOverwrites ==
    [][\A t \in Threads :
          \A r \in requisitions :
             (DecideReturns(t) /\ r.id = request[t].requisition_id
                /\ r.decision_at # None)
             => /\ response'[t].code = 200
                /\ \E r2 \in requisitions' :
                      /\ r2.id = r.id
                      /\ DecisionIn(r2) = DecisionOf(t)
                      /\ requisitions' = (requisitions \ {r}) \cup {r2}]_vars

C8_Witness ==
    \E t, u \in Threads :
        /\ t # u
        /\ pc[t] = "idle" /\ pc[u] = "idle"
        /\ request[t].op = "update_requisition_status"
        /\ request[u].op = "update_requisition_status"
        /\ request[t].requisition_id = request[u].requisition_id
        /\ response[t].code = 200 /\ response[u].code = 200
        /\ local[t].decision_timestamp < local[u].decision_timestamp
        /\ local[t].approved_by_level2_user_id # None
        /\ local[u].approved_by_level2_user_id = None
        /\ \E r \in requisitions :
              /\ r.id = request[u].requisition_id
              /\ DecisionIn(r) = DecisionOf(u)

\* C9: when two Decide calls on the same requisition overlap, each answers
\* 200 and the record after each update is the complete write of the call
\* that made it, so that the final record is the write of one call only.
SameTarget(t, u) ==
    /\ t # u
    /\ request[u].op = "update_requisition_status"
    /\ request[u].requisition_id = request[t].requisition_id
    /\ \/ pc[u] = "update_execute"
       \/ pc[u] = "idle" /\ response[u].code = 200

C9_ConcurrentDecideLastWriteWins ==
    [][\A t, u \in Threads :
          (DecideReturns(t) /\ SameTarget(t, u)
             /\ \E r \in requisitions : r.id = request[t].requisition_id)
          => /\ response'[t].code = 200
             /\ \A r \in requisitions' :
                   r.id = request[t].requisition_id => DecisionIn(r) = DecisionOf(t)]_vars

C9_Witness ==
    \E t, u \in Threads :
        /\ t # u
        /\ pc[t] = "idle" /\ pc[u] = "idle"
        /\ request[t].op = "update_requisition_status"
        /\ request[u].op = "update_requisition_status"
        /\ request[t].requisition_id = request[u].requisition_id
        /\ response[t].code = 200 /\ response[u].code = 200
        /\ local[t].new_status # local[u].new_status
        /\ local[t].decision_timestamp < local[u].decision_timestamp
        /\ \E r \in requisitions :
              /\ r.id = request[t].requisition_id
              /\ DecisionIn(r) = DecisionOf(t)

\* C10: a register call (with all required fields valid, the store itself
\* working) whose cpfId is that of a stored user when the call answers is
\* answered 409 and adds no user.
C10_DuplicateCpfIdConflict ==
    [][\A t \in Threads :
          (/\ pc[t] = "register_insert"
           /\ pc'[t] = "idle"
           /\ response'[t] # [code |-> 500, error |-> "Error"]
           /\ SelectByCpfId(users, local[t].cpf_id) # {})
          => response'[t].code = 409 /\ users' = users]_vars

\* ---------------------------------------------------- claims C11 .. C20

\* C11: no two user records share a cpf_id, under every interleaving of
\* concurrent register_user calls and init_db runs.
C11_CpfIdUnique ==
    \A u1 \in users, u2 \in users : u1.cpf_id = u2.cpf_id => u1 = u2

\* Two registrations of one cpf_id raced past the SELECT; the second INSERT
\* was refused by the constraint and one row with that cpf_id is stored.
C11_Witness ==
    /\ \E t \in Threads : response[t] = [code |-> 500, error |-> "UniqueViolation"]
    /\ \E t \in Threads : response[t].code = 201
    /\ Cardinality(users) >= 2

\* needle occurs in hay as a contiguous subsequence
Contains(hay, needle) ==
    \E i \in 0..Len(hay) :
        /\ i + Len(needle) <= Len(hay)
        /\ \A j \in 1..Len(needle) : hay[i + j] = needle[j]

\* column holds text, in either case, as a substring
ContainsText(column, text) ==
    /\ column # None
    /\ Contains(Lower(Chars(column[1])), Lower(Chars(text[1])))

\* Requisition r passes every filter the query supplies.
Satisfies(r, args) ==
    /\ Truthy(args.status) => r.status = args.status
    /\ Truthy(args.userId) => r.requested_by_user_id = args.userId
    /\ Truthy(args.basin) => ContainsText(r.basin, args.basin)
    /\ Truthy(args.userGroup) => ContainsText(r.user_group, args.userGroup)

\* Thread t takes up a get_requisitions request and answers it with a list.
ListReturns(t) ==
    /\ TakesRequest(t)
    /\ request'[t].op = "get_requisitions"
    /\ response'[t].code = 200

\* C12: a List returns exactly the stored requisitions that pass every
\* supplied filter (status equal, requester equal, basin and user group
\* containing the filter text in either case), each once and none left out.
C12_ListReturnsExactlyMatching ==
    [][\A t \in Threads :
          ListReturns(t)
          => LET body == response'[t].body
                 matching == {r \in requisitions : Satisfies(r, request'[t].args)}
             IN /\ {body[i] : i \in 1..Len(body)} = {ReqDict(r) : r \in matching}
                /\ Len(body) = Cardinality(matching)]_vars

\* The ids of the rows of a result list, in its order.
IdsOf(result_list) == [i \in 1..Len(result_list) |-> result_list[i].id]

\* C13: of any two records a List returns with different creation times the
\* one created later comes first, and a Decide leaves the orders in which
\* the stored records can be listed as they were.
C13_ListNewestFirst ==
    [][/\ \A t \in Threads :
             ListReturns(t)
             => LET body == response'[t].body
                IN \A i, j \in 1..Len(body) :
                      body[i].created_at[2] > body[j].created_at[2] => i < j
       /\ \A t \in Threads :
             DecideReturns(t)
             => {IdsOf(l) : l \in SelectRequisitions(requisitions', NoArgs)}
                = {IdsOf(l) : l \in SelectRequisitions(requisitions, NoArgs)}]_vars

\* A Decide of this run was stored, and a List then returned the decided
\* record among records created at different times, the newest first.
C13_Witness ==
    \E t, u \in Threads :
        /\ request[u].op = "update_requisition_status"
        /\ response[u].code = 200
        /\ request[t].op = "get_requisitions"
        /\ response[t].code = 200
        /\ LET body == response[t].body
           IN /\ Len(body) >= 2
              /\ body[1].created_at[2] > body[Len(body)].created_at[2]
              /\ \E i \in 1..Len(body) :
                    /\ body[i].id = request[u].requisition_id
                    /\ body[i].decision_at = IsoFormat(<<local[u].decision_timestamp>>)

\* The columns of a requisition a Decide has no business with.
NonDecision(r) ==
    [k \in DOMAIN r \ {"status", "approved_by_level2_user_id",
                       "approved_by_level2_user_cpf_id",
                       "approved_by_level2_user_name", "decision_at"} |-> r[k]]

\* C14: a successful Decide changes nothing but the status and the four
\* decision fields of the requisition it names; every other column of that
\* requisition and every other requisition stay as they were, a step that
\* is no Decide changes no stored requisition, and none is ever removed.
C14_DecideFrame ==
    [][/\ \A r \in requisitions :
             \E r2 \in requisitions' : r2.id = r.id /\ NonDecision(r2) = NonDecision(r)
       /\ \A r2, r3 \in requisitions' : r2.id = r3.id => r2 = r3
       /\ \A t \in Threads :
             DecideReturns(t)
             => \A r \in requisitions :
                   r.id # request[t].requisition_id => r \in requisitions'
       /\ (\A t \in Threads : ~DecideReturns(t))
             => \A r \in requisitions : r \in requisitions']_vars

\* A Decide changed the older of the two stored requisitions while the
\* other one is as it was.
C14_Witness ==
    \E t \in Threads :
        /\ request[t].op = "update_requisition_status"
        /\ request[t].requisition_id = 101
        /\ response[t].code = 200
        /\ \E r \in requisitions : r.id = 101 /\ r \notin StoredRequisitions
        /\ \E r \in requisitions : r.id = 102 /\ r \in StoredRequisitions

\* C15: a Decide whose body has no status, or an empty one, is answered 400
\* for the missing status before the store is touched, whether or not the
\* id names a stored requisition: no connection is opened and the
\* requisitions are as they were.
C15_DecideWithoutStatusRejected ==
    [][\A t \in Threads :
          (/\ TakesRequest(t)
           /\ request'[t].op = "update_requisition_status"
           /\ Get(request'[t].data, "status", None) \in {None, Str("")})
          => /\ response'[t] = [code |-> 400, field |-> "status"]
             /\ pc'[t] = "idle"
             /\ conn' = conn
             /\ requisitions' = requisitions]_vars

\* A Decide without a status was refused for a stored requisition, and one
\* with an empty status for an id no requisition has.
C15_Witness ==
    \E t, u \in Threads :
        /\ request[t].op = "update_requisition_status"
        /\ "status" \notin DOMAIN request[t].data
        /\ \E r \in requisitions : r.id = request[t].requisition_id
        /\ response[t] = [code |-> 400, field |-> "status"]
        /\ request[u].op = "update_requisition_status"
        /\ request[u].data = [status |-> Str("")]
        /\ \A r \in requisitions : r.id # request[u].requisition_id
        /\ response[u] = [code |-> 400, field |-> "status"]

\* Thread t takes the last step of a change_password call that answers 200.
PasswordChanged(t) ==
    /\ pc[t] = "password_update"
    /\ pc'[t] = "idle"
    /\ response'[t].code = 200

\* The request of t is one a change_password call may succeed on, given the
\* row u the store holds when the call writes.
MaySucceedOn(t, u) ==
    LET current_password == request[t].data.currentPassword[1]
        new_password == request[t].data.newPassword[1]
    IN /\ u.id = request[t].user_id
       /\ check_password_hash(u.password_hash, current_password)
       /\ StrLen(new_password) >= 6
       /\ new_password # current_password

\* C16: the stored credential of a user changes only in the step of a
\* change_password call for that user that answers 200, and a call answers
\* 200 only if the user exists, the supplied current password verifies
\* against the credential stored when the call writes, and the new password
\* has six characters or more and differs from the current one; concurrent
\* calls for one user included.
C16_CredentialChangesOnlyVerified ==
    [][/\ \A u \in users, u2 \in users' :
             (u.id = u2.id /\ u.password_hash # u2.password_hash)
             => \E t \in Threads : PasswordChanged(t) /\ MaySucceedOn(t, u)
       /\ \A t \in Threads :
             PasswordChanged(t) => \E u \in users : MaySucceedOn(t, u)]_vars

\* C17: every user record has a role that is one of admin, approver and
\* requester, after any sequence of register_user calls and init_db runs.
C17_RoleInVocabulary ==
    \A u \in users : u.role \in {Str("admin"), Str("approver"), Str("requester")}

\* The text the document shows under a label.
Shown(fields, label) ==
    {fields[i].value : i \in {j \in 1..Len(fields) : fields[j].label = label}}

\* C18: in the exported document every field whose column has no value
\* (block, area, remarks, the decision date of a pending record, ...) is
\* shown as the text N/A.
C18_MissingShownAsNA ==
    [][\A t \in Threads :
          (/\ TakesRequest(t)
           /\ request'[t].op = "download_requisition_pdf"
           /\ response'[t].code = 200)
          => \A r \in requisitions :
                r.id = request'[t].requisition_id
                => /\ \A i \in 1..Len(PdfColumns) :
                         r[PdfColumns[i][2]] = None
                         => Shown(response'[t].fields, PdfColumns[i][1]) = {Str("N/A")}
                   /\ r.decision_at = None
                         => Shown(response'[t].fields, "Decision Date") = {Str("N/A")}
                   /\ (r.approved_by_level2_user_name = None
                       /\ r.approved_by_level2_user_cpf_id = None)
                         => Shown(response'[t].fields, "Approved/Denied By") = {Str("N/A")}]_vars

\* The positions of a handler between two statements on its connection.
InFlight ==
    {"init_db_insert", "create_insert", "update_execute", "register_insert",
     "password_update"}

\* C19: a connection is open only while the call that opened it is in
\* progress: a thread that has returned from its handler, on whatever exit
\* path, holds no connection, and with no call in progress no connection is
\* open.
C19_ConnectionClosedOnReturn ==
    /\ \A t \in Threads : conn[t] <=> pc[t] \in InFlight
    /\ (\A t \in Threads : pc[t] \notin InFlight)
          => Cardinality({t \in Threads : conn[t]}) = 0

\* One call was ended by a failing statement, another by an early return
\* after its SELECT, and both threads are back without a connection.
C19_Witness ==
    \E t, u \in Threads :
        /\ response[t] = [code |-> 500, error |-> "Error"]
        /\ pc[t] = "idle" /\ ~conn[t]
        /\ request[u].op \in {"change_password", "register_user"}
        /\ response[u].code \in {401, 404, 409}
        /\ pc[u] = "idle" /\ ~conn[u]

\* The body of t names as decider a stored user of role requester who is the
\* requester of requisition r.
DecidedByOwnRequester(t, r) ==
    /\ Get(request[t].data, "approvedByLevel2UserId", None) = r.requested_by_user_id
    /\ r.requested_by_user_id # None
    /\ \E u \in users :
          /\ u.cpf_id = Get(request[t].data, "approvedByLevel2UserCpfId", None)
          /\ u.cpf_id = r.user_cpf_no
          /\ u.role = Str("requester")

\* The body of t names no decider, or one the users table does not hold.
DecidedByStranger(t) ==
    \A u \in users : u.cpf_id # Get(request[t].data, "approvedByLevel2UserCpfId", None)

\* C20: a Decide is not authorized against the users table: whoever the
\* body names as decider (a user of role requester, the requester of the
\* requisition, nobody the table holds, nobody at all), a Decide with a
\* status is taken up, and on a stored requisition it answers 200 and stores
\* its decision; the users table is as it was.
C20_DecideUnauthorized ==
    [][/\ \A t \in Threads :
             (/\ TakesRequest(t)
              /\ request'[t].op = "update_requisition_status"
              /\ Truthy(Get(request'[t].data, "status", None)))
             => pc'[t] = "update_execute" /\ users' = users
       /\ \A t \in Threads :
             (/\ DecideReturns(t)
              /\ \E r \in requisitions : r.id = request[t].requisition_id)
             => /\ response'[t].code = 200
                /\ users' = users
                /\ \E r \in requisitions' :
                      /\ r.id = request[t].requisition_id
                      /\ DecisionIn(r) = DecisionOf(t)]_vars

\* The requester of requisition 101, a user of role requester, has decided
\* it, and so has a caller who names nobody the users table holds.
C20_Witness ==
    \E t, u \in Threads, r \in requisitions :
        /\ t # u
        /\ r.id = 101
        /\ request[t].op = "update_requisition_status"
        /\ request[t].requisition_id = 101
        /\ response[t].code = 200
        /\ DecidedByOwnRequester(t, r)
        /\ request[u].op = "update_requisition_status"
        /\ request[u].requisition_id = 101
        /\ response[u].code = 200
        /\ DecidedByStranger(u)

\* ---------------------------------------------------------- claim C21

\* The rows of the users table that hold the cpf_id admin123.
Admins(rows) == SelectByCpfId(rows, Str("admin123"))

\* Thread t takes the last step of an init_db run.
InitDbEnds(t) ==
    /\ pc[t] \in {"boot", "init_db_insert"}
    /\ pc'[t] = "idle"

\* C21: init_db is idempotent for the default administrator: when a run,
\* booting alone or next to other processes and register_user calls, ends
\* without a database error, the users table holds exactly one row with
\* cpf_id admin123; the table never holds two, and a row that holds
\* admin123 stays as it is, neither replaced nor joined by a second one.
C21_InitDbIdempotent ==
    [][/\ \A t \in Threads :
             (InitDbEnds(t) /\ response'[t] # PrintedError)
             => Cardinality(Admins(users')) = 1
       /\ Cardinality(Admins(users')) <= 1
       /\ \A u \in Admins(users) : Admins(users') = {u}]_vars

\* Two processes booted at once: one created the admin, the INSERT of the
\* other was refused; a restarted process then ran init_db again, found the
\* admin and printed nothing, and the table holds that one admin.
C21_Witness ==
    \E t, u \in Threads :
        /\ response[t] = PrintedError
        /\ local[t].op = "init_db"
        /\ pc[t] = "idle"
        /\ request[u].op = "init_db"
        /\ response[u] = NoResponse
        /\ pc[u] = "idle"
        /\ nreq >= 1
        /\ \E a \in users :
              Admins(users) = {a} /\ a.role = Str("admin") /\ a.id # local[t].admin_id

====
